---- MODULE Spec2Model ----
(***************************************************************************)
(* Money-muling detector: the detection engine (buildGraph, detectCycles,  *)
(* detectFanPatterns, calculateSuspicion) and the POST /analyze handler    *)
(* that drives it.                                                         *)
(*                                                                         *)
(* JavaScript values are represented as follows.                           *)
(*   - a string is a TLA+ string; an array is a sequence;                  *)
(*   - an object used as a map (velocityMap, fanIn, fanOut) is a function  *)
(*     whose DOMAIN is the set of own keys;                                *)
(*   - the graph object is a record [order, adj]: adj is the map, order    *)
(*     the own keys in insertion order (for..in needs it);                 *)
(*   - a value that is either null or an object is a sequence of length    *)
(*     0 or 1;                                                             *)
(*   - a call that may throw returns a record with a field threw.          *)
(***************************************************************************)
EXTENDS Integers, Sequences, FiniteSets, TLC

(***************************************************************************)
(* Bounds of the model.                                                    *)
(***************************************************************************)
MaxLen == 3
MaxCycle == 8
MaxBoost == 2
MaxIndex == 9
MaxRings == 2
MaxCount == 10
NReq == 2
MaxElapsed == 1

VARIABLES
    \* the server: one entry per request
    disk,           \* the upload directory: path -> content of the file
    reqFile,        \* req.file: <<>> or <<[path |-> p]>>
    pc,             \* where the handler of the request stands
    uploadedPath,   \* the handler's uploadedPath: <<>> (null) or <<path>>
    transactions,   \* the handler's transactions
    eng,            \* <<>> until the engine has been invoked, then <<its values>>
    response,       \* <<>> until a response is sent, then <<[status, body]>>
    \* one run of the engine on a transaction list
    txs,            \* the transaction list handed to the engine
    out,            \* <<>> before the run, <<the engine's values>> after it
    \* one call of calculateSuspicion
    probe,          \* its arguments
    verdict         \* <<>> before the call, <<its return value>> after it

serverVars == <<disk, reqFile, pc, uploadedPath, transactions, eng, response>>

engineVars == <<txs, out>>

scoreVars == <<probe, verdict>>

vars == <<serverVars, engineVars, scoreVars>>

Requests == 1..NReq

(***************************************************************************)
(* Generic helpers.                                                        *)
(***************************************************************************)
\* Array.prototype.includes
Includes(seq, x) == \E i \in 1..Len(seq) : seq[i] = x

\* Math.min
Min(a, b) == IF a <= b THEN a ELSE b

Digit == <<"0", "1", "2", "3", "4", "5", "6", "7", "8", "9">>

\* String(n) for a non-negative integer n
RECURSIVE NumberToString(_)
NumberToString(n) ==
    IF n < 10 THEN Digit[n + 1]
    ELSE NumberToString(n \div 10) \o Digit[(n % 10) + 1]

\* str.padStart(width, "0")
RECURSIVE PadStart(_, _)
PadStart(str, width) ==
    IF Len(str) >= width THEN str ELSE PadStart("0" \o str, width)

(***************************************************************************)
(* Property lookup on a plain object literal {}.  A key that is not an own *)
(* property is looked up on Object.prototype: these names resolve to a     *)
(* function (or, for __proto__, to Object.prototype itself), a truthy      *)
(* value that is neither an array nor iterable.                            *)
(***************************************************************************)
InheritedKeys == {"constructor", "toString", "__proto__"}

\* A canonical array index ("0", "7", "42"): for..in lists such keys first,
\* in ascending numeric order.
IsArrayIndex(k) == \E i \in 0..MaxIndex : NumberToString(i) = k

IndexValue(k) == CHOOSE i \in 0..MaxIndex : NumberToString(i) = k

\* map[key] = (map[key] || 0) + 1.  An inherited value is truthy, so the
\* sum is a string concatenation; 0 stands for that non-numeric string
\* (a numeric count is never 0, and string + 1 is again a string).
Increment(map, key) ==
    IF key \in DOMAIN map
    THEN [map EXCEPT ![key] = IF @ = 0 THEN 0 ELSE @ + 1]
    ELSE map @@ (key :> IF key \in InheritedKeys THEN 0 ELSE 1)

\* map[key] >= n: false for undefined and for a non-numeric string
AtLeast(map, key, n) ==
    /\ key \in DOMAIN map
    /\ map[key] # 0
    /\ map[key] >= n

(***************************************************************************)
(* buildGraph                                                              *)
(***************************************************************************)
EmptyGraph == [order |-> <<>>, adj |-> <<>>]

\* graph[s] is set to [] only when !graph[s]; an inherited value is truthy
\* and has no push, so line 12 throws a TypeError.
PushThrows(graph, s) == s \notin DOMAIN graph.adj /\ s \in InheritedKeys

AddEdge(graph, s, r) ==
    LET g == IF s \in DOMAIN graph.adj
             THEN graph
             ELSE [order |-> Append(graph.order, s),
                   adj   |-> graph.adj @@ (s :> <<>>)]
    IN  [g EXCEPT !.adj[s] = Append(@, r)]

RECURSIVE buildGraphFrom(_, _, _)
buildGraphFrom(txList, i, acc) ==
    IF acc.threw \/ i > Len(txList) THEN acc
    ELSE LET tx == txList[i]
         IN  IF PushThrows(acc.graph, tx.sender_id)
             THEN [acc EXCEPT !.threw = TRUE]
             ELSE buildGraphFrom(txList, i + 1,
                     [threw       |-> FALSE,
                      graph       |-> AddEdge(acc.graph, tx.sender_id, tx.receiver_id),
                      velocityMap |-> Increment(acc.velocityMap, tx.sender_id)])

buildGraph(txList) ==
    buildGraphFrom(txList, 1,
        [threw |-> FALSE, graph |-> EmptyGraph, velocityMap |-> <<>>])

(***************************************************************************)
(* detectCycles                                                            *)
(***************************************************************************)
\* Mutant: ringCount kept at module level, never reset between invocations.
InitialRingCount_shared ==
    1 + Cardinality(UNION {{<<r, i>> : i \in 1..(IF eng[r] = <<>> THEN 0
                                                  ELSE Len(eng[r][1].rings))} :
                              r \in Requests})

\* let ringCount = 1
InitialRingCount == 1

\* if (depth > 6) return
DepthExceeded(depth) == depth > 6

\* Mutant: the length guard lets a two-account path close.
ClosesRing_short(neighbor, start, path) == neighbor = start /\ Len(path) >= 2

\* neighbor === start && path.length >= 3
ClosesRing(neighbor, start, path) == neighbor = start /\ Len(path) >= 3

\* `RING_${String(ringCount++).padStart(3, "0")}`
RingId(ringCount) == "RING_" \o PadStart(NumberToString(ringCount), 3)

\* Mutant: the closing hop is counted as a member.
RiskScore_closing(path) == 90 + Len(path) + 1

\* risk_score: 90 + path.length
RiskScore(path) == 90 + Len(path)

NewRing(ringCount, path) ==
    [ring_id         |-> RingId(ringCount),
     member_accounts |-> path,
     pattern_type    |-> "cycle",
     risk_score      |-> RiskScore(path)]

\* if (!path.includes(neighbor)) dfs(...)
Descends(path, neighbor) == ~Includes(path, neighbor)

RECURSIVE dfs(_, _, _, _, _, _)
RECURSIVE dfsNeighbors(_, _, _, _, _, _, _)
dfs(graph, start, current, path, depth, acc) ==
    IF acc.threw \/ DepthExceeded(depth) THEN acc
    ELSE IF current \in DOMAIN graph.adj
         THEN dfsNeighbors(graph, start, graph.adj[current], 1, path, depth, acc)
         ELSE IF current \in InheritedKeys
              THEN [acc EXCEPT !.threw = TRUE]   \* for..of over a non-iterable
              ELSE acc

dfsNeighbors(graph, start, neighbors, i, path, depth, acc) ==
    IF acc.threw \/ i > Len(neighbors) THEN acc
    ELSE LET neighbor == neighbors[i]
             acc1 == IF ClosesRing(neighbor, start, path)
                     THEN [acc EXCEPT
                             !.rings = Append(@, NewRing(acc.ringCount, path)),
                             !.ringCount = @ + 1]
                     ELSE acc
             acc2 == IF Descends(path, neighbor)
                     THEN dfs(graph, start, neighbor, Append(path, neighbor),
                              depth + 1, acc1)
                     ELSE acc1
         IN  dfsNeighbors(graph, start, neighbors, i + 1, path, depth, acc2)

\* The array-index keys of a set, ascending.
RECURSIVE IndexKeysAscending(_)
IndexKeysAscending(keys) ==
    IF keys = {} THEN <<>>
    ELSE LET least == CHOOSE k \in keys :
                         \A o \in keys : IndexValue(k) <= IndexValue(o)
         IN  <<least>> \o IndexKeysAscending(keys \ {least})

\* for (let node in graph): array-index keys ascending, then the other
\* string keys in insertion order.
ForInKeys(graph) ==
    LET IsOther(k) == ~IsArrayIndex(k)
    IN  IndexKeysAscending({k \in DOMAIN graph.adj : IsArrayIndex(k)})
            \o SelectSeq(graph.order, IsOther)

RECURSIVE detectCyclesFrom(_, _, _, _)
detectCyclesFrom(graph, nodes, i, acc) ==
    IF acc.threw \/ i > Len(nodes) THEN acc
    ELSE detectCyclesFrom(graph, nodes, i + 1,
            dfs(graph, nodes[i], nodes[i], <<nodes[i]>>, 0, acc))

detectCycles(graph) ==
    detectCyclesFrom(graph, ForInKeys(graph), 1,
        [threw |-> FALSE, rings |-> <<>>, ringCount |-> InitialRingCount])

(***************************************************************************)
(* detectFanPatterns                                                       *)
(***************************************************************************)
RECURSIVE detectFanPatternsFrom(_, _, _)
detectFanPatternsFrom(txList, i, acc) ==
    IF i > Len(txList) THEN acc
    ELSE detectFanPatternsFrom(txList, i + 1,
            [fanOut |-> Increment(acc.fanOut, txList[i].sender_id),
             fanIn  |-> Increment(acc.fanIn, txList[i].receiver_id)])

\* Mutant: the two counters are returned under each other's name.
detectFanPatterns_swapped(txList) ==
    LET counted == detectFanPatternsFrom(txList, 1, [fanIn |-> <<>>, fanOut |-> <<>>])
    IN  [fanIn |-> counted.fanOut, fanOut |-> counted.fanIn]

detectFanPatterns(txList) ==
    detectFanPatternsFrom(txList, 1, [fanIn |-> <<>>, fanOut |-> <<>>])

(***************************************************************************)
(* calculateSuspicion                                                      *)
(***************************************************************************)
FanThreshold == 5
VelocityThreshold == 10
CycleWeight == 50
FanWeight == 20
VelocityWeight == 10
ScoreCap == 100

\* rings.find(r => r.member_accounts.includes(account)): <<>> or <<ring>>
FindRing(rings, account) ==
    LET hits == {i \in 1..Len(rings) : Includes(rings[i].member_accounts, account)}
    IN  IF hits = {} THEN <<>>
        ELSE <<rings[CHOOSE i \in hits : \A j \in hits : i <= j]>>

\* Mutant: > instead of >=.
HighFanIn_strict(account, fanIn) == AtLeast(fanIn, account, FanThreshold + 1)

HighFanIn(account, fanIn) == AtLeast(fanIn, account, FanThreshold)

HighFanOut(account, fanOut) == AtLeast(fanOut, account, FanThreshold)

\* Mutant: > instead of >=.
HighVelocity_strict(account, velocityMap) ==
    AtLeast(velocityMap, account, VelocityThreshold + 1)

HighVelocity(account, velocityMap) == AtLeast(velocityMap, account, VelocityThreshold)

\* ringId || "N/A"
RingIdOrNA(ring) ==
    IF ring = <<>> \/ ring[1].ring_id = "" THEN "N/A" ELSE ring[1].ring_id

\* null is <<>>, a result is <<result>>
calculateSuspicion(account, rings, fanIn, fanOut, velocityMap) ==
    LET ring == FindRing(rings, account)
        s1 == IF ring # <<>> THEN CycleWeight ELSE 0
        p1 == IF ring # <<>> THEN <<"cycle_network">> ELSE <<>>
        s2 == IF HighFanIn(account, fanIn) THEN s1 + FanWeight ELSE s1
        p2 == IF HighFanIn(account, fanIn) THEN Append(p1, "high_fan_in") ELSE p1
        s3 == IF HighFanOut(account, fanOut) THEN s2 + FanWeight ELSE s2
        p3 == IF HighFanOut(account, fanOut) THEN Append(p2, "high_fan_out") ELSE p2
        s4 == IF HighVelocity(account, velocityMap) THEN s3 + VelocityWeight ELSE s3
        p4 == IF HighVelocity(account, velocityMap)
              THEN Append(p3, "high_velocity") ELSE p3
        score == Min(ScoreCap, s4)
    IN  IF score = 0 THEN <<>>
        ELSE <<[suspicion_score   |-> score,
                detected_patterns |-> p4,
                ring_id           |-> RingIdOrNA(ring)]>>

(***************************************************************************)
(* The detection engine as the handler runs it (server.js 159-190).        *)
(***************************************************************************)
\* accounts = new Set(); add sender, then receiver, per transaction.
\* A Set iterates in insertion order.
RECURSIVE AccountsFrom(_, _, _)
AccountsFrom(txList, i, acc) ==
    IF i > Len(txList) THEN acc
    ELSE LET s == txList[i].sender_id
             r == txList[i].receiver_id
             a1 == IF Includes(acc, s) THEN acc ELSE Append(acc, s)
             a2 == IF Includes(a1, r) THEN a1 ELSE Append(a1, r)
         IN  AccountsFrom(txList, i + 1, a2)

Accounts(txList) == AccountsFrom(txList, 1, <<>>)

\* accounts.forEach(acc => { ... if (result) suspicious_accounts.push(...) })
RECURSIVE ScoreAccounts(_, _, _, _, _, _, _)
ScoreAccounts(accounts, i, rings, fanIn, fanOut, velocityMap, acc) ==
    IF i > Len(accounts) THEN acc
    ELSE LET result == calculateSuspicion(accounts[i], rings, fanIn, fanOut,
                                          velocityMap)
             next == IF result = <<>> THEN acc
                     ELSE Append(acc,
                            [account_id        |-> accounts[i],
                             suspicion_score   |-> result[1].suspicion_score,
                             detected_patterns |-> result[1].detected_patterns,
                             ring_id           |-> result[1].ring_id])
         IN  ScoreAccounts(accounts, i + 1, rings, fanIn, fanOut, velocityMap, next)

\* Mutant: a comparator that also moves an element ahead of its equals.
ComesBefore_equals(a, b) == b.suspicion_score - a.suspicion_score <= 0

\* The comparator (a, b) => b.suspicion_score - a.suspicion_score:
\* a negative value places a before b.
ComesBefore(a, b) == b.suspicion_score - a.suspicion_score < 0

\* Array.prototype.sort is stable: x goes after every element that does not
\* have to come after it.
InsertSorted(sorted, x) ==
    LET later == {i \in 1..Len(sorted) : ComesBefore(x, sorted[i])}
        pos == IF later = {} THEN Len(sorted) + 1
               ELSE CHOOSE i \in later : \A j \in later : i <= j
    IN  SubSeq(sorted, 1, pos - 1) \o <<x>> \o SubSeq(sorted, pos, Len(sorted))

RECURSIVE SortFrom(_, _, _)
SortFrom(seq, i, sorted) ==
    IF i > Len(seq) THEN sorted
    ELSE SortFrom(seq, i + 1, InsertSorted(sorted, seq[i]))

Sort(seq) == SortFrom(seq, 1, <<>>)

NoResult ==
    [threw |-> TRUE, graph |-> EmptyGraph, velocityMap |-> <<>>, rings |-> <<>>,
     fanIn |-> <<>>, fanOut |-> <<>>, accounts |-> <<>>,
     suspicious_accounts |-> <<>>]

\* server.js 159-190.  An exception leaves the try block: nothing after the
\* throwing call is evaluated.
Engine(txList) ==
    LET built == buildGraph(txList)
        found == detectCycles(built.graph)
        fans == detectFanPatterns(txList)
        accounts == Accounts(txList)
    IN  IF built.threw THEN NoResult
        ELSE IF found.threw THEN NoResult
        ELSE [threw |-> FALSE,
              graph |-> built.graph,
              velocityMap |-> built.velocityMap,
              rings |-> found.rings,
              fanIn |-> fans.fanIn,
              fanOut |-> fans.fanOut,
              accounts |-> accounts,
              suspicious_accounts |->
                  Sort(ScoreAccounts(accounts, 1, found.rings, fans.fanIn,
                                     fans.fanOut, built.velocityMap, <<>>))]

(***************************************************************************)
(* The CSV upload (server.js 41-71, 104-153).  In this part a JavaScript   *)
(* string is the sequence of its characters; Join gives the TLA+ string    *)
(* the engine sees.  An index is 1-based and 0 stands for findIndex's -1.  *)
(***************************************************************************)
Whitespace == {" ", "\t", "\r", "\n"}

RECURSIVE Join(_)
Join(chars) == IF chars = <<>> THEN "" ELSE Head(chars) \o Join(Tail(chars))

RECURSIVE TrimStart(_)
TrimStart(s) ==
    IF s # <<>> /\ Head(s) \in Whitespace THEN TrimStart(Tail(s)) ELSE s

RECURSIVE TrimEnd(_)
TrimEnd(s) ==
    IF s # <<>> /\ s[Len(s)] \in Whitespace
    THEN TrimEnd(SubSeq(s, 1, Len(s) - 1)) ELSE s

\* String.prototype.trim
Trim(s) == TrimEnd(TrimStart(s))

\* raw.split(/\r?\n/): a \r right before the \n belongs to the separator
RECURSIVE SplitLinesFrom(_, _, _, _)
SplitLinesFrom(raw, i, current, lines) ==
    IF i > Len(raw) THEN Append(lines, current)
    ELSE IF raw[i] = "\n"
         THEN SplitLinesFrom(raw, i + 1, <<>>, Append(lines, current))
         ELSE IF raw[i] = "\r" /\ i < Len(raw) /\ raw[i + 1] = "\n"
              THEN SplitLinesFrom(raw, i + 2, <<>>, Append(lines, current))
              ELSE SplitLinesFrom(raw, i + 1, Append(current, raw[i]), lines)

\* raw.split(/\r?\n/).map(line => line.trim()).filter(Boolean)
Lines(raw) ==
    LET split == SplitLinesFrom(raw, 1, <<>>, <<>>)
        trimmed == [i \in 1..Len(split) |-> Trim(split[i])]
        NonEmpty(l) == l # <<>>
    IN  SelectSeq(trimmed, NonEmpty)

RECURSIVE parseCsvLineFrom(_, _, _, _, _)
parseCsvLineFrom(line, i, values, current, inQuotes) ==
    IF i > Len(line) THEN Append(values, Trim(current))
    ELSE IF line[i] = "\""
         THEN IF inQuotes /\ i < Len(line) /\ line[i + 1] = "\""
              THEN parseCsvLineFrom(line, i + 2, values,
                                    Append(current, "\""), inQuotes)
              ELSE parseCsvLineFrom(line, i + 1, values, current, ~inQuotes)
         ELSE IF line[i] = "," /\ ~inQuotes
              THEN parseCsvLineFrom(line, i + 1, Append(values, Trim(current)),
                                    <<>>, inQuotes)
              ELSE parseCsvLineFrom(line, i + 1, values,
                                    Append(current, line[i]), inQuotes)

parseCsvLine(line) == parseCsvLineFrom(line, 1, <<>>, <<>>, FALSE)

UpperCase == <<"A", "B", "C", "D", "E", "F", "G", "H", "I", "J", "K", "L", "M",
               "N", "O", "P", "Q", "R", "S", "T", "U", "V", "W", "X", "Y", "Z">>

LowerCase == <<"a", "b", "c", "d", "e", "f", "g", "h", "i", "j", "k", "l", "m",
               "n", "o", "p", "q", "r", "s", "t", "u", "v", "w", "x", "y", "z">>

\* String.prototype.toLowerCase
ToLowerCase(s) ==
    [i \in 1..Len(s) |->
        IF \E j \in 1..Len(UpperCase) : UpperCase[j] = s[i]
        THEN LowerCase[CHOOSE j \in 1..Len(UpperCase) : UpperCase[j] = s[i]]
        ELSE s[i]]

\* s.replace(/\s+/g, "_"): every run of whitespace becomes one underscore
RECURSIVE ReplaceWhitespaceFrom(_, _, _)
ReplaceWhitespaceFrom(s, i, acc) ==
    IF i > Len(s) THEN acc
    ELSE IF s[i] \in Whitespace
         THEN IF i > 1 /\ s[i - 1] \in Whitespace
              THEN ReplaceWhitespaceFrom(s, i + 1, acc)
              ELSE ReplaceWhitespaceFrom(s, i + 1, Append(acc, "_"))
         ELSE ReplaceWhitespaceFrom(s, i + 1, Append(acc, s[i]))

NormalizeHeader(h) == ReplaceWhitespaceFrom(ToLowerCase(h), 1, <<>>)

senderCols == {"sender_id", "sender", "from", "source"}

receiverCols == {"receiver_id", "receiver", "to", "destination"}

\* normalizedHeaders.findIndex(h => cols.includes(h))
FindIndex(headers, cols) ==
    LET hits == {i \in 1..Len(headers) : Join(NormalizeHeader(headers[i])) \in cols}
    IN  IF hits = {} THEN 0 ELSE CHOOSE i \in hits : \A j \in hits : i <= j

\* values[index]: undefined past the end; "" and undefined are both falsy
Cell(values, index) == IF index <= Len(values) THEN Join(values[index]) ELSE ""

\* lines.slice(1).map(...).filter(tx => tx.sender_id && tx.receiver_id)
ParseTransactions(lines, senderIndex, receiverIndex) ==
    LET rows == Tail(lines)
        mapped == [i \in 1..Len(rows) |->
                     [sender_id   |-> Cell(parseCsvLine(rows[i]), senderIndex),
                      receiver_id |-> Cell(parseCsvLine(rows[i]), receiverIndex)]]
        Valid(tx) == tx.sender_id # "" /\ tx.receiver_id # ""
    IN  SelectSeq(mapped, Valid)

\* server.js 104-153: <<status, transactions>>
ParseUpload(raw) ==
    LET lines == Lines(raw)
        headers == parseCsvLine(lines[1])
        senderIndex == FindIndex(headers, senderCols)
        receiverIndex == FindIndex(headers, receiverCols)
        parsed == ParseTransactions(lines, senderIndex, receiverIndex)
    IN  IF Len(lines) < 2
        THEN [error |-> "CSV must include header and at least one transaction row.",
              transactions |-> <<>>]
        ELSE IF senderIndex = 0 \/ receiverIndex = 0
        THEN [error |-> "CSV must contain sender and receiver columns (e.g. sender_id, receiver_id).",
              transactions |-> <<>>]
        ELSE IF Len(parsed) = 0
        THEN [error |-> "No valid transactions found.", transactions |-> <<>>]
        ELSE [error |-> "", transactions |-> parsed]

(***************************************************************************)
(* The uploads a client may send.                                          *)
(***************************************************************************)
\* ""
FileEmpty == <<>>

\* "from,to\n"
FileHeaderOnly == <<"f", "r", "o", "m", ",", "t", "o", "\n">>

\* "from,amount\nA,5\n"
FileNoReceiver ==
    <<"f", "r", "o", "m", ",", "a", "m", "o", "u", "n", "t", "\n",
      "A", ",", "5", "\n">>

\* "from,to\n,B\nA\n"
FileNoValidRow ==
    <<"f", "r", "o", "m", ",", "t", "o", "\n", ",", "B", "\n", "A", "\n">>

\* "from,to\nA,B\nB,C\nC,A\n"
FileCycle ==
    <<"f", "r", "o", "m", ",", "t", "o", "\n", "A", ",", "B", "\n",
      "B", ",", "C", "\n", "C", ",", "A", "\n">>

\* " To ,\"SENDER  ID\"\r\nB, A\r\n\"C\",B\r\n\r\nA,C,x"
FileCycleQuoted ==
    <<" ", "T", "o", " ", ",", "\"", "S", "E", "N", "D", "E", "R", " ", " ",
      "I", "D", "\"", "\r", "\n", "B", ",", " ", "A", "\r", "\n",
      "\"", "C", "\"", ",", "B", "\r", "\n", "\r", "\n", "A", ",", "C", ",", "x">>

\* "from,to\nA,B\nB,A\nB,B\n"
FileNoRing ==
    <<"f", "r", "o", "m", ",", "t", "o", "\n", "A", ",", "B", "\n",
      "B", ",", "A", "\n", "B", ",", "B", "\n">>

\* "from,to\nA,toString\n"
FileProto ==
    <<"f", "r", "o", "m", ",", "t", "o", "\n", "A", ",",
      "t", "o", "S", "t", "r", "i", "n", "g", "\n">>

Files == {FileEmpty, FileHeaderOnly, FileNoReceiver, FileNoValidRow,
          FileCycle, FileCycleQuoted, FileNoRing, FileProto}

(***************************************************************************)
(* The server: POST /analyze.                                              *)
(***************************************************************************)
NoTransactions == <<>>

InitServer ==
    /\ disk = <<>>
    /\ reqFile = [r \in Requests |-> <<>>]
    /\ pc = [r \in Requests |-> "idle"]
    /\ uploadedPath = [r \in Requests |-> <<>>]
    /\ transactions = [r \in Requests |-> NoTransactions]
    /\ eng = [r \in Requests |-> <<>>]
    /\ response = [r \in Requests |-> <<>>]

\* upload.single("file") with a file part: multer stores it under a fresh
\* path (the request's number stands for it) and sets req.file
ReceiveFile(r) ==
    /\ pc[r] = "idle"
    /\ \E raw \in Files : disk' = disk @@ (r :> raw)
    /\ reqFile' = [reqFile EXCEPT ![r] = <<[path |-> r]>>]
    /\ pc' = [pc EXCEPT ![r] = "handler"]
    /\ UNCHANGED <<uploadedPath, transactions, eng, response, engineVars, scoreVars>>

\* upload.single("file") without a file part: req.file stays undefined
ReceiveNoFile(r) ==
    /\ pc[r] = "idle"
    /\ pc' = [pc EXCEPT ![r] = "handler"]
    /\ UNCHANGED <<disk, reqFile, uploadedPath, transactions, eng, response, engineVars, scoreVars>>

BadRequest(message) == <<[status |-> 400, body |-> [error |-> message]]>>

\* server.js 96-100
RejectNoFile(r) ==
    /\ pc[r] = "handler"
    /\ reqFile[r] = <<>>
    /\ response' = [response EXCEPT ![r] =
           BadRequest("No file uploaded. Use form field name 'file'.")]
    /\ pc' = [pc EXCEPT ![r] = "finally"]
    /\ UNCHANGED <<disk, reqFile, uploadedPath, transactions, eng, engineVars, scoreVars>>

\* server.js 102-153: readFileSync throws when the file is not there
Parse(r) ==
    /\ pc[r] = "handler"
    /\ reqFile[r] # <<>>
    /\ uploadedPath' = [uploadedPath EXCEPT ![r] = <<reqFile[r][1].path>>]
    /\ IF reqFile[r][1].path \notin DOMAIN disk
       THEN /\ pc' = [pc EXCEPT ![r] = "catch"]
            /\ UNCHANGED <<transactions, response>>
       ELSE LET parsed == ParseUpload(disk[reqFile[r][1].path])
            IN  IF parsed.error # ""
                THEN /\ response' = [response EXCEPT ![r] = BadRequest(parsed.error)]
                     /\ pc' = [pc EXCEPT ![r] = "finally"]
                     /\ UNCHANGED transactions
                ELSE /\ transactions' = [transactions EXCEPT ![r] = parsed.transactions]
                     /\ pc' = [pc EXCEPT ![r] = "engine"]
                     /\ UNCHANGED response
    /\ UNCHANGED <<disk, reqFile, eng, engineVars, scoreVars>>

\* server.js 159-190
RunEngine(r) ==
    /\ pc[r] = "engine"
    /\ eng' = [eng EXCEPT ![r] = <<Engine(transactions[r])>>]
    /\ pc' = [pc EXCEPT ![r] = IF eng'[r][1].threw THEN "catch" ELSE "respond"]
    /\ UNCHANGED <<disk, reqFile, uploadedPath, transactions, response, engineVars, scoreVars>>

\* server.js 192-202; the clock decides processing_time_seconds (kept here
\* as the elapsed milliseconds, before the division by 1000)
Respond(r) ==
    /\ pc[r] = "respond"
    /\ \E elapsed \in 0..MaxElapsed :
          response' = [response EXCEPT ![r] =
              <<[status |-> 200,
                 body |->
                   [suspicious_accounts |-> eng[r][1].suspicious_accounts,
                    fraud_rings |-> eng[r][1].rings,
                    summary |->
                      [total_accounts_analyzed |-> Len(eng[r][1].accounts),
                       suspicious_accounts_flagged |->
                           Len(eng[r][1].suspicious_accounts),
                       fraud_rings_detected |-> Len(eng[r][1].rings),
                       processing_time_seconds |-> elapsed]]]>>]
    /\ pc' = [pc EXCEPT ![r] = "finally"]
    /\ UNCHANGED <<disk, reqFile, uploadedPath, transactions, eng, engineVars, scoreVars>>

\* server.js 204-208
Catch(r) ==
    /\ pc[r] = "catch"
    /\ response' = [response EXCEPT ![r] =
           <<[status |-> 500,
              body |-> [error |-> "Analysis failed. Check CSV format."]]>>]
    /\ pc' = [pc EXCEPT ![r] = "finally"]
    /\ UNCHANGED <<disk, reqFile, uploadedPath, transactions, eng, engineVars, scoreVars>>

\* Mutant: the finally block does not unlink.
Unlinked_never(path, files) == files

\* if (uploadedPath && fs.existsSync(uploadedPath)) fs.unlinkSync(uploadedPath)
Unlinked(path, files) ==
    IF path # <<>> /\ path[1] \in DOMAIN files
    THEN [p \in DOMAIN files \ {path[1]} |-> files[p]]
    ELSE files

\* server.js 209-213
Finally(r) ==
    /\ pc[r] = "finally"
    /\ disk' = Unlinked(uploadedPath[r], disk)
    /\ pc' = [pc EXCEPT ![r] = "done"]
    /\ UNCHANGED <<reqFile, uploadedPath, transactions, eng, response, engineVars, scoreVars>>

(***************************************************************************)
(* Engine run: the inputs.                                                 *)
(***************************************************************************)
Tx(s, r) == [sender_id |-> s, receiver_id |-> r]

SeqsUpTo(S, n) == UNION {[1..m -> S] : m \in 0..n}

\* every list of at most MaxLen transactions over three accounts
DenseAccounts == {"A", "7", "3"}

DenseLists == SeqsUpTo({Tx(s, r) : s, r \in DenseAccounts}, MaxLen)

\* lists that name a property of Object.prototype
ProtoAccounts == {"B", "C", "constructor"}

ProtoLists == SeqsUpTo({Tx(s, r) : s, r \in ProtoAccounts}, MaxLen)

\* a directed cycle over k accounts, its edges listed from any of them on,
\* alone or followed by one more edge between two of its accounts
Node(i) ==
    IF i % 3 = 0 THEN NumberToString(MaxCycle + 1 - i)
    ELSE "ACC_" \o NumberToString(i)

CycleEdge(k, i) == Tx(Node(i), Node((i % k) + 1))

CycleList(k, first) == [j \in 1..k |-> CycleEdge(k, ((first + j - 2) % k) + 1)]

CycleLists ==
    UNION {{CycleList(k, f) : f \in 1..k}
             \cup {Append(CycleList(k, f), Tx(Node(i), Node(j))) :
                      f \in 1..k, i \in 1..k, j \in 1..k} : k \in 3..MaxCycle}

\* runs of repeated transfers, alone or before or after a 3-cycle
Mults == {FanThreshold - 1, VelocityThreshold - 1}

RunSet == {<<s, r, n>> : s \in DenseAccounts, r \in DenseAccounts, n \in Mults}

RECURSIVE Expand(_)
Expand(runs) ==
    IF runs = <<>> THEN <<>>
    ELSE [j \in 1..Head(runs)[3] |-> Tx(Head(runs)[1], Head(runs)[2])]
            \o Expand(Tail(runs))

BaseCycle == <<Tx("A", "7"), Tx("7", "3"), Tx("3", "A")>>

BoostLists ==
    UNION {{Expand(runs), BaseCycle \o Expand(runs), Expand(runs) \o BaseCycle} :
              runs \in SeqsUpTo(RunSet, MaxBoost)}

EngineInputs == DenseLists \cup ProtoLists \cup CycleLists \cup BoostLists

(***************************************************************************)
(* One call of calculateSuspicion: the inputs.                             *)
(***************************************************************************)
ProbeAccounts == {"B", "E"}

MemberLists == {<<"A", "B", "C">>, <<"B", "C", "D">>, <<"C", "D", "F">>}

\* the rings detectCycles would return for these cycles, in this order
RingList(members) == [i \in 1..Len(members) |-> NewRing(i, members[i])]

\* a map that holds count for the account, or nothing when count is 0
CountMap(account, count) == IF count = 0 THEN <<>> ELSE (account :> count)

Probes ==
    {[account |-> a, rings |-> RingList(m), fanIn |-> CountMap(a, i),
      fanOut |-> CountMap(a, o), velocityMap |-> CountMap(a, v)] :
        a \in ProbeAccounts, m \in SeqsUpTo(MemberLists, MaxRings),
        i \in 0..MaxCount, o \in 0..MaxCount, v \in 0..MaxCount}

NoProbe ==
    [account |-> "", rings |-> <<>>, fanIn |-> <<>>, fanOut |-> <<>>,
     velocityMap |-> <<>>]

(***************************************************************************)
(* The specifications.                                                     *)
(***************************************************************************)
InitNoRun == txs = <<>> /\ out = <<>>

InitNoProbe == probe = NoProbe /\ verdict = <<>>

\* The server, from start-up.
Init == InitServer /\ InitNoRun /\ InitNoProbe

Next ==
    \E r \in Requests :
        \/ ReceiveFile(r)
        \/ ReceiveNoFile(r)
        \/ RejectNoFile(r)
        \/ Parse(r)
        \/ RunEngine(r)
        \/ Respond(r)
        \/ Catch(r)
        \/ Finally(r)

Spec == Init /\ [][Next]_vars

\* The engine, run once on a transaction list.
InitEngine ==
    /\ InitServer
    /\ InitNoProbe
    /\ txs \in EngineInputs
    /\ out = <<>>

Analyze ==
    /\ out = <<>>
    /\ out' = <<Engine(txs)>>
    /\ UNCHANGED <<txs, serverVars, scoreVars>>

NextEngine == Analyze

SpecEngine == InitEngine /\ [][NextEngine]_vars

\* calculateSuspicion, called once.
InitScore ==
    /\ InitServer
    /\ InitNoRun
    /\ probe \in Probes
    /\ verdict = <<>>

Score ==
    /\ verdict = <<>>
    /\ verdict' = <<calculateSuspicion(probe.account, probe.rings, probe.fanIn,
                                       probe.fanOut, probe.velocityMap)>>
    /\ UNCHANGED <<probe, serverVars, engineVars>>

NextScore == Score

SpecScore == InitScore /\ [][NextScore]_vars

(***************************************************************************)
(* Vocabulary of the properties.  These read the transaction list and the  *)
(* values the engine left behind; they do not use the engine's operators.  *)
(***************************************************************************)
Returned == out # <<>> /\ ~out[1].threw

Senders == {txs[i].sender_id : i \in 1..Len(txs)}

Receivers == {txs[i].receiver_id : i \in 1..Len(txs)}

IsEdge(a, b) ==
    \E i \in 1..Len(txs) : txs[i].sender_id = a /\ txs[i].receiver_id = b

NoDuplicate(seq) == \A i, j \in 1..Len(seq) : i # j => seq[i] # seq[j]

ElementsOf(seq) == {seq[i] : i \in 1..Len(seq)}

\* position of the account's first appearance, sender before receiver
FirstSeen(a) ==
    LET seen == {2 * i - 1 : i \in {j \in 1..Len(txs) : txs[j].sender_id = a}}
                  \cup {2 * i : i \in {j \in 1..Len(txs) : txs[j].receiver_id = a}}
    IN  CHOOSE n \in seen : \A m \in seen : n <= m

InRing(a, ringList) ==
    \E i \in 1..Len(ringList) : a \in ElementsOf(ringList[i].member_accounts)

CountOf(map, a) == IF a \in DOMAIN map THEN map[a] ELSE 0

Reported(a, score) ==
    \E i \in 1..Len(out[1].suspicious_accounts) :
        /\ out[1].suspicious_accounts[i].account_id = a
        /\ out[1].suspicious_accounts[i].suspicion_score = score

\* the only successor of an account in a list where every sender sends once
Successor(a) == txs[CHOOSE i \in 1..Len(txs) : txs[i].sender_id = a].receiver_id

RECURSIVE Walk(_, _)
Walk(a, n) == IF n = 0 THEN a ELSE Successor(Walk(a, n - 1))

\* the list is one simple directed cycle over k accounts, each edge once
SimpleCycle(k) ==
    /\ Len(txs) = k
    /\ Cardinality(Senders) = k
    /\ Receivers = Senders
    /\ \A n \in 1..(k - 1) : Walk(txs[1].sender_id, n) # txs[1].sender_id

Rotation(a, k) == [i \in 1..k |-> Walk(a, i - 1)]

(***************************************************************************)
(* C1.  Original statement: for exactly the three transfers A->B, B->C,    *)
(* C->A (A, B, C pairwise distinct) the engine's detectCycles returns      *)
(* exactly one Ring, with member_accounts [A,B,C] and risk_score 93.       *)
(***************************************************************************)
ThreeCycle ==
    /\ Len(txs) = 3
    /\ txs[1].receiver_id = txs[2].sender_id
    /\ txs[2].receiver_id = txs[3].sender_id
    /\ txs[3].receiver_id = txs[1].sender_id
    /\ Cardinality(Senders) = 3

C1_OneRing ==
    (ThreeCycle /\ Returned) =>
        /\ Len(out[1].rings) = 1
        /\ out[1].rings[1].member_accounts =
               <<txs[1].sender_id, txs[2].sender_id, txs[3].sender_id>>
        /\ out[1].rings[1].risk_score = 93

(***************************************************************************)
(* C1, amended.  For the three transfers A->B, B->C, C->A detectCycles     *)
(* returns exactly three Rings, one per rotation of the cycle ([A,B,C],    *)
(* [B,C,A], [C,A,B]), each with risk_score 93; when A, B or C names a      *)
(* property of Object.prototype the engine throws instead of returning.    *)
(***************************************************************************)
C1_ThreeRotations ==
    (ThreeCycle /\ out # <<>>) =>
        IF Senders \cap InheritedKeys # {}
        THEN out[1].threw
        ELSE /\ ~out[1].threw
             /\ Len(out[1].rings) = 3
             /\ {out[1].rings[i].member_accounts : i \in 1..3} =
                    {<<txs[1].sender_id, txs[2].sender_id, txs[3].sender_id>>,
                     <<txs[2].sender_id, txs[3].sender_id, txs[1].sender_id>>,
                     <<txs[3].sender_id, txs[1].sender_id, txs[2].sender_id>>}
             /\ \A i \in 1..3 : out[1].rings[i].risk_score = 93

C1_Witness ==
    /\ ThreeCycle
    /\ Returned
    /\ Len(out[1].rings) = 3
    /\ out[1].rings[1].member_accounts # <<txs[1].sender_id, txs[2].sender_id,
                                            txs[3].sender_id>>

(***************************************************************************)
(* C2.  Every Ring returned by detectCycles has at most 6 member accounts  *)
(* (so risk_score never exceeds 96).                                       *)
(***************************************************************************)
C2_AtMostSixMembers ==
    Returned =>
        \A i \in 1..Len(out[1].rings) :
            /\ Len(out[1].rings[i].member_accounts) <= 6
            /\ out[1].rings[i].risk_score <= 96

(***************************************************************************)
(* C3.  Every Ring returned by detectCycles is a simple directed cycle of  *)
(* the graph: at least 3 members, no member twice, every consecutive pair  *)
(* and the closing pair an edge, risk_score = 90 + number of members; and  *)
(* a list made only of self-loops yields no Ring.                          *)
(***************************************************************************)
C3_RingsAreSimpleCycles ==
    Returned =>
        /\ \A i \in 1..Len(out[1].rings) :
              LET m == out[1].rings[i].member_accounts
              IN  /\ Len(m) >= 3
                  /\ NoDuplicate(m)
                  /\ \A j \in 1..(Len(m) - 1) : IsEdge(m[j], m[j + 1])
                  /\ IsEdge(m[Len(m)], m[1])
                  /\ out[1].rings[i].risk_score = 90 + Len(m)
        /\ (\A i \in 1..Len(txs) : txs[i].sender_id = txs[i].receiver_id)
              => out[1].rings = <<>>

C3_Witness ==
    /\ Returned
    /\ out[1].rings # <<>>
    /\ \E i \in 1..Len(txs) : txs[i].sender_id = txs[i].receiver_id
    /\ \E i, j \in 1..Len(txs) :
          /\ txs[i].sender_id # txs[i].receiver_id
          /\ txs[j] = Tx(txs[i].receiver_id, txs[i].sender_id)
    /\ \E i, j \in 1..Len(txs) : i # j /\ txs[i] = txs[j]

(***************************************************************************)
(* C5.  Original statement: in the full pipeline every account that is a   *)
(* member of a detected ring and has FanOut >= 5 and velocity >= 10 is     *)
(* reported with suspicion_score = 80.                                     *)
(***************************************************************************)
RingFanOutVelocity(a) ==
    /\ InRing(a, out[1].rings)
    /\ CountOf(out[1].fanOut, a) >= 5
    /\ CountOf(out[1].velocityMap, a) >= 10

C5_ScoreIs80 ==
    Returned =>
        \A a \in Senders \cup Receivers :
            RingFanOutVelocity(a) => Reported(a, 80)

(***************************************************************************)
(* C5, amended.  Such an account is reported with suspicion_score = 80     *)
(* when its FanIn is below 5, and with suspicion_score = 100 when its      *)
(* FanIn is 5 or more.                                                     *)
(***************************************************************************)
C5_ScoreIs80Or100 ==
    Returned =>
        \A a \in Senders \cup Receivers :
            RingFanOutVelocity(a) =>
                Reported(a, IF CountOf(out[1].fanIn, a) >= 5 THEN 100 ELSE 80)

C5_Witness ==
    /\ Returned
    /\ \E a \in Senders :
          /\ RingFanOutVelocity(a)
          /\ CountOf(out[1].velocityMap, a) = 10
          /\ Reported(a, 80)

(***************************************************************************)
(* C6.  suspicious_accounts holds each account at most once, only accounts *)
(* that are sender or receiver of some transaction, and is ordered by      *)
(* non-increasing suspicion_score, accounts of equal score in the order of *)
(* their first appearance in the transaction list.                         *)
(***************************************************************************)
C6_RankedList ==
    Returned =>
        LET sa == out[1].suspicious_accounts
        IN  /\ \A i, j \in 1..Len(sa) :
                  i # j => sa[i].account_id # sa[j].account_id
            /\ \A i \in 1..Len(sa) : sa[i].account_id \in Senders \cup Receivers
            /\ \A i, j \in 1..Len(sa) :
                  i < j =>
                      /\ sa[i].suspicion_score >= sa[j].suspicion_score
                      /\ sa[i].suspicion_score = sa[j].suspicion_score
                            => FirstSeen(sa[i].account_id) < FirstSeen(sa[j].account_id)

C6_Witness ==
    /\ Returned
    /\ LET sa == out[1].suspicious_accounts
       IN  /\ Len(sa) = 3
           /\ sa[1].suspicion_score > sa[2].suspicion_score
           /\ sa[2].suspicion_score = sa[3].suspicion_score
           /\ FirstSeen(sa[1].account_id) > FirstSeen(sa[3].account_id)

(***************************************************************************)
(* C9.  For a list that is one simple directed cycle over k accounts, each *)
(* edge once, 3 <= k <= 6, detectCycles returns exactly k Rings: for every *)
(* account the rotation of the cycle that begins at it, all with different *)
(* ring_id and risk_score 90 + k.                                          *)
(***************************************************************************)
C9_OneRingPerRotation ==
    \A k \in 3..6 :
        (SimpleCycle(k) /\ out # <<>>) =>
            /\ ~out[1].threw
            /\ Len(out[1].rings) = k
            /\ \A a \in Senders :
                  \E i \in 1..k : out[1].rings[i].member_accounts = Rotation(a, k)
            /\ \A i, j \in 1..k :
                  i # j => out[1].rings[i].ring_id # out[1].rings[j].ring_id
            /\ \A i \in 1..k : out[1].rings[i].risk_score = 90 + k

\* The same statement for the runs that return (no account names a property
\* of Object.prototype): it holds.
C9_WhenReturned ==
    \A k \in 3..6 :
        (SimpleCycle(k) /\ Returned) =>
            /\ Len(out[1].rings) = k
            /\ \A a \in Senders :
                  \E i \in 1..k : out[1].rings[i].member_accounts = Rotation(a, k)
            /\ \A i, j \in 1..k :
                  i # j => out[1].rings[i].ring_id # out[1].rings[j].ring_id
            /\ \A i \in 1..k : out[1].rings[i].risk_score = 90 + k

C9_ThrowsExactlyOnInheritedKeys ==
    out # <<>> => (out[1].threw <=> (Senders \cup Receivers) \cap InheritedKeys # {})

(***************************************************************************)
(* C10.  velocityMap and fanOut give every sender the same count; hence    *)
(* every result with high_velocity also has high_fan_out, the weights of   *)
(* its patterns sum to at most 100, and no suspicion_score is 10 or 60.    *)
(***************************************************************************)
PatternWeight(patterns) ==
    (IF "cycle_network" \in patterns THEN 50 ELSE 0)
        + (IF "high_fan_in" \in patterns THEN 20 ELSE 0)
        + (IF "high_fan_out" \in patterns THEN 20 ELSE 0)
        + (IF "high_velocity" \in patterns THEN 10 ELSE 0)

C10_VelocityIsFanOut ==
    Returned =>
        /\ \A a \in Senders :
              /\ a \in DOMAIN out[1].velocityMap
              /\ a \in DOMAIN out[1].fanOut
              /\ out[1].velocityMap[a] = out[1].fanOut[a]
        /\ \A i \in 1..Len(out[1].suspicious_accounts) :
              LET res == out[1].suspicious_accounts[i]
                  patterns == ElementsOf(res.detected_patterns)
              IN  /\ "high_velocity" \in patterns => "high_fan_out" \in patterns
                  /\ PatternWeight(patterns) <= 100
                  /\ res.suspicion_score \notin {10, 60}

C10_Witness ==
    /\ Returned
    /\ \E i \in 1..Len(out[1].suspicious_accounts) :
          /\ "high_velocity" \in
                 ElementsOf(out[1].suspicious_accounts[i].detected_patterns)
          /\ out[1].suspicious_accounts[i].suspicion_score = 30

(***************************************************************************)
(* C4.  calculateSuspicion returns null exactly when none of the four      *)
(* signals holds; otherwise suspicion_score = min(100, 50*[in a ring] +    *)
(* 20*[fanIn>=5] + 20*[fanOut>=5] + 10*[velocity>=10]), in 1..100,         *)
(* detected_patterns holds exactly the labels of the signals that hold,    *)
(* and ring_id is the id of the first ring that contains the account, or   *)
(* "N/A".                                                                  *)
(***************************************************************************)
ProbeLabels ==
    (IF InRing(probe.account, probe.rings) THEN {"cycle_network"} ELSE {})
        \cup (IF CountOf(probe.fanIn, probe.account) >= 5
              THEN {"high_fan_in"} ELSE {})
        \cup (IF CountOf(probe.fanOut, probe.account) >= 5
              THEN {"high_fan_out"} ELSE {})
        \cup (IF CountOf(probe.velocityMap, probe.account) >= 10
              THEN {"high_velocity"} ELSE {})

ProbeFirstRingId ==
    IF InRing(probe.account, probe.rings)
    THEN probe.rings[CHOOSE i \in 1..Len(probe.rings) :
                        /\ InRing(probe.account, <<probe.rings[i]>>)
                        /\ \A j \in 1..(i - 1) :
                              ~InRing(probe.account, <<probe.rings[j]>>)].ring_id
    ELSE "N/A"

C4_ScoreFormula ==
    verdict # <<>> =>
        /\ verdict[1] = <<>> <=> ProbeLabels = {}
        /\ verdict[1] # <<>> =>
              /\ verdict[1][1].suspicion_score =
                     (IF PatternWeight(ProbeLabels) <= 100
                      THEN PatternWeight(ProbeLabels) ELSE 100)
              /\ verdict[1][1].suspicion_score \in 1..100
              /\ ElementsOf(verdict[1][1].detected_patterns) = ProbeLabels
              /\ Len(verdict[1][1].detected_patterns) = Cardinality(ProbeLabels)
              /\ verdict[1][1].ring_id = ProbeFirstRingId

C4_Witness ==
    /\ verdict # <<>>
    /\ verdict[1] # <<>>
    /\ verdict[1][1].suspicion_score = 100
    /\ verdict[1][1].ring_id = "RING_002"
    /\ CountOf(probe.fanIn, probe.account) = 5

(***************************************************************************)
(* C7.  Two requests with the same transaction list get identical          *)
(* suspicious_accounts and fraud_rings, ring ids included: every           *)
(* invocation numbers its rings RING_001, RING_002, ... from its own       *)
(* counter, whatever the other request has done.                           *)
(***************************************************************************)
ExpectedRingIds == <<"RING_001", "RING_002", "RING_003">>

Answered(r) == response[r] # <<>> /\ response[r][1].status = 200

C7_IndependentInvocations ==
    /\ \A r1, r2 \in Requests :
          (eng[r1] # <<>> /\ eng[r2] # <<>> /\ transactions[r1] = transactions[r2])
              => /\ eng[r1][1].threw = eng[r2][1].threw
                 /\ eng[r1][1].rings = eng[r2][1].rings
                 /\ eng[r1][1].suspicious_accounts = eng[r2][1].suspicious_accounts
    /\ \A r1, r2 \in Requests :
          (Answered(r1) /\ Answered(r2) /\ transactions[r1] = transactions[r2])
              => /\ response[r1][1].body.fraud_rings = response[r2][1].body.fraud_rings
                 /\ response[r1][1].body.suspicious_accounts =
                        response[r2][1].body.suspicious_accounts
    /\ \A r \in Requests :
          eng[r] # <<>> =>
              \A i \in 1..Len(eng[r][1].rings) :
                  i <= Len(ExpectedRingIds)
                      => eng[r][1].rings[i].ring_id = ExpectedRingIds[i]

C7_Witness ==
    \E r1, r2 \in Requests :
        /\ r1 # r2
        /\ Answered(r1)
        /\ Answered(r2)
        /\ transactions[r1] = transactions[r2]
        /\ Len(response[r1][1].body.fraud_rings) = 3
        /\ pc[r1] = "done"
        /\ pc[r2] = "finally"

(***************************************************************************)
(* C8.  Once the handler has recorded the uploaded path, the temporary     *)
(* file is gone when the handler has ended, whichever response it sent     *)
(* (400, 200 or 500); and a request answered with 400 never invoked the    *)
(* engine.                                                                 *)
(***************************************************************************)
C8_UploadRemoved ==
    \A r \in Requests :
        /\ (pc[r] = "done" /\ uploadedPath[r] # <<>>)
              => /\ uploadedPath[r][1] \notin DOMAIN disk
                 /\ response[r] # <<>>
                 /\ response[r][1].status \in {200, 400, 500}
        /\ (response[r] # <<>> /\ response[r][1].status = 400) => eng[r] = <<>>

C8_Witness ==
    \E r1, r2 \in Requests :
        /\ pc[r1] = "done" /\ pc[r2] = "done"
        /\ uploadedPath[r1] # <<>> /\ uploadedPath[r2] # <<>>
        /\ response[r1][1].status = 400
        /\ response[r1][1].body.error = "No valid transactions found."
        /\ response[r2][1].status = 500
        /\ disk = <<>>
====
